---- MODULE Spec2Model ----
(***************************************************************************)
(* The UMD2 streaming pipeline of src/umd2.py (main's read loop) as a      *)
(* state machine: one step consumes one input line; and the BackendThread  *)
(* of src/gui.py with the child process it reads (SpecGui).                *)
(*                                                                         *)
(* Numbers.  Python ints are unbounded and the floats of the pipeline are  *)
(* modelled exactly: nanometre and hertz quantities are integers (the      *)
(* configurations and counts checked are integer valued, where binary      *)
(* floating point is exact), and the values that leave the integers (the   *)
(* EMA and the moving average) are reduced fractions <<num, den>>.         *)
(* A token's decimal text is kept in tenths: 25 is "2.5", 30 is "3".       *)
(* An optional value (Python None) is a sequence: <<>> or <<v>>.           *)
(***************************************************************************)
EXTENDS Integers, Sequences, FiniteSets, TLC

VARIABLES
    args,               \* the parsed configuration (immutable for the run)
    np_ok,              \* whether "import numpy" succeeds in this environment
    step_nm_per_count,  \* nm per count, computed once
    fs_hz,              \* current sampling frequency
    x_nm,               \* cumulative displacement
    prevD,              \* previous primary count, None before the first
    ema_x,              \* EMA accumulator, None until seeded
    ma_buf,             \* moving-average history (deque)
    fft_buf,            \* spectral sample buffer
    emitted,            \* accepted-sample counter
    out,                \* what was written to stdout, in order
    log,                \* the rows appended to the log file, in order
    log_writer,         \* whether the log file is open (log_writer is not None)
    status,             \* "running", or "crashed" once an exception left main()
    host,               \* the environment: does the log file exist, may stdout fail
    ref,                \* history: the same lines run with no environmental triple active
    os_nt,              \* gui.py: os.name == "nt" on the host of the GUI
    w_stop,             \* BackendThread._stop
    w_proc,             \* BackendThread._proc: "none", or the child "running" / "exited"
    w_thread,           \* where BackendThread._run is: "unstarted", "spawn", "loop",
                        \* "finally", "done"
    stop_pc,            \* where stop() is: "idle", or in its "sleep" after the interrupt
    calls,              \* the signals asked of the child, in order, with the caller
    pending,            \* the signals delivered to the child and not yet acted on
    bbuf,               \* the child's stdout buffer: complete lines not yet in the pipe
    pipe,               \* the lines in the pipe, unread
    nwritten,           \* history: the number of complete lines the child wrote
    delivered,          \* history: the records passed to line_received, in order
    events,             \* history: the notifications the reader emitted, in order
    stop_live,          \* history: stop() found the child running
    workers,            \* MainWindow: the BackendThreads made so far, each with the
                        \* place of its reader, its stop flag and its child
    worker,             \* MainWindow.worker: 0 for None, else an index of workers
    start_btn,          \* start_btn.isEnabled()
    stop_btn,           \* stop_btn.isEnabled()
    capture_btn,        \* capture_btn.isChecked()
    capture_active,     \* MainWindow.capture_active
    capture_file,       \* MainWindow.capture_file: "none" or "open"
    capture_writer,     \* whether MainWindow.capture_writer is set
    capture_disk,       \* what was written to the capture file, in order
    open_files,         \* the capture files this process holds open
    evq,                \* the notifications queued for the GUI thread
    nread,              \* the number of lines the readers have read
    win_closed,         \* the window was closed
    click_checked,      \* whether clicked(checked) hands its argument to the slot
    nlines,             \* number of lines consumed from the source
    last,               \* history: the line consumed by the latest step
    hdrs,               \* history: the numbers of the header lines consumed, in order
    samples             \* history: the loop's locals for each line with a primary count

mainvars == <<args, np_ok, step_nm_per_count, fs_hz, x_nm, prevD, ema_x,
              ma_buf, fft_buf, emitted, out, log, log_writer, status, host,
              ref, nlines, last, hdrs, samples>>

guivars == <<os_nt, w_stop, w_proc, w_thread, stop_pc, calls, pending, bbuf,
             pipe, nwritten, delivered, events, stop_live>>

winvars == <<workers, worker, start_btn, stop_btn, capture_btn, capture_active,
             capture_file, capture_writer, capture_disk, open_files, evq,
             nread, win_closed, click_checked>>

vars == <<mainvars, guivars, winvars>>

\* Number of input lines a run consumes.
MaxLines == 4

\* The number of lines the backend writes while the GUI reads it; for the
\* window, the number of backends launched and lines read together.
MaxWrites == 3

\* The frequency assumed when none is known at the first sample.
DefaultFs == 1000

None == <<>>
Some(v) == <<v>>

-----------------------------------------------------------------------------
(* Exact arithmetic on fractions <<num, den>>, den > 0.                    *)

Abs(i) == IF i < 0 THEN -i ELSE i

RECURSIVE GCD(_, _)
GCD(a, b) == IF b = 0 THEN a ELSE GCD(b, a % b)

RNorm(n, d) ==
    LET g == GCD(Abs(n), d)
    IN  IF g = 0 THEN <<0, 1>> ELSE <<n \div g, d \div g>>

RInt(i) == <<i, 1>>
RAdd(p, q) == RNorm(p[1] * q[2] + q[1] * p[2], p[2] * q[2])
RMul(p, q) == RNorm(p[1] * q[1], p[2] * q[2])
RSub(p, q) == RAdd(p, <<-q[1], q[2]>>)
RLess(p, q) == p[1] * q[2] < q[1] * p[2]
\* i / n for integers i and n # 0
RDiv(i, n) == IF n > 0 THEN RNorm(i, n) ELSE RNorm(-i, -n)

RECURSIVE SumSeq(_)
SumSeq(s) == IF s = <<>> THEN 0 ELSE s[1] + SumSeq(Tail(s))

-----------------------------------------------------------------------------
(* Input lines.  A line is blank, a "Sample Frequency = <fs> Hz" header,   *)
(* or any other text, of which only the key:value tokens matter.           *)

BlankLine == [kind |-> "blank", fs |-> 0, toks |-> <<>>]
HeaderLine(f) == [kind |-> "header", fs |-> f, toks |-> <<>>]
TokenLine(s) == [kind |-> "tokens", fs |-> 0, toks |-> s]

HeaderValues == {0, 2000}

TokenSeqs ==
    { << <<"N", 50>> >>,
      << <<"D", 10>>, <<"N", 70>> >>,
      << <<"D", 20>> >>,
      << <<"diff", 30>>, <<"D", 10>>, <<"N", 90>> >>,
      << <<"D", 25>>, <<"N", 19>>, <<"X", 15>> >> }

Lines ==
    {BlankLine} \cup {HeaderLine(f) : f \in HeaderValues}
                \cup {TokenLine(s) : s \in TokenSeqs}

\* key.upper()
Upper(k) ==
    CASE k = "d" -> "D"
      [] k = "diff" -> "DIFF"
      [] k = "n" -> "N"
      [] OTHER -> k

\* The dict of tokens of a line: a later token of the same key replaces an earlier one.
RECURSIVE parse_line_tokens(_)
parse_line_tokens(s) ==
    IF s = <<>> THEN <<>>
    ELSE LET d == parse_line_tokens(SubSeq(s, 1, Len(s) - 1))
             t == s[Len(s)]
             k == Upper(t[1])
         IN  [x \in (DOMAIN d) \cup {k} |-> IF x = k THEN t[2] ELSE d[x]]

\* A variant that lets a configured override win over the headers.
maybe_extract_fs_UnlessOverride(line) ==
    IF line.kind = "header" /\ args.fs <= 0 THEN Some(line.fs) ELSE None

\* The header's number when the line is a header, else None.
maybe_extract_fs(line) == IF line.kind = "header" THEN Some(line.fs) ELSE None

\* Python truth of an Optional[float]: None and 0.0 are both false.
Truthy(o) == o # None /\ o[1] # 0

\* int(v): truncation toward zero of a value given in tenths.
IntOf(t) == IF t >= 0 THEN t \div 10 ELSE -((-t) \div 10)

\* A variant that prefers D to DIFF.
PrimaryCountPrefersD(toks) ==
    IF "D" \in DOMAIN toks THEN Some(IntOf(toks["D"]))
    ELSE IF "DIFF" \in DOMAIN toks THEN Some(IntOf(toks["DIFF"]))
    ELSE None

\* A variant that takes N when neither DIFF nor D is there.
PrimaryCountFallsBackToN(toks) ==
    IF "DIFF" \in DOMAIN toks THEN Some(IntOf(toks["DIFF"]))
    ELSE IF "D" \in DOMAIN toks THEN Some(IntOf(toks["D"]))
    ELSE IF "N" \in DOMAIN toks THEN Some(IntOf(toks["N"]))
    ELSE None

\* DIFF takes precedence, else D, else no usable primary count.
PrimaryCount(toks) ==
    IF "DIFF" \in DOMAIN toks THEN Some(IntOf(toks["DIFF"]))
    ELSE IF "D" \in DOMAIN toks THEN Some(IntOf(toks["D"]))
    ELSE None

\* N = int(toks.get("N", 0))
SeqNum(toks) == IF "N" \in DOMAIN toks THEN IntOf(toks["N"]) ELSE 0

-----------------------------------------------------------------------------
(* Configuration.                                                          *)

BaseArgs ==
    [fs |-> 0, emit |-> "every", decimate |-> 1,
     stepnm |-> None, lambda_nm |-> 8, scale_div |-> 8,
     startnm |-> 0, straight_mult |-> 1,
     ema_alpha |-> <<0, 1>>, ma_window |-> 0,
     fft_len |-> 0, fft_every |-> 0, fft_signal |-> "x",
     mode |-> "displacement", angle_norm_nm |-> 1, angle_corr |-> 1,
     env_temp |-> None, env_temp0 |-> None, env_ktemp |-> <<0, 1>>,
     env_press |-> None, env_press0 |-> None, env_kpress |-> <<0, 1>>,
     env_hum |-> None, env_hum0 |-> None, env_khum |-> <<0, 1>>,
     enable_xy |-> FALSE, out |-> "jsonl", log |-> None]

\* stepnm if set, else lambda_nm / max(1, scale_div); the wavelengths used are
\* multiples of the division, so the quotient is exact.
compute_step_nm(a) ==
    IF a.stepnm # None THEN a.stepnm[1]
    ELSE LET div == IF a.scale_div > 1 THEN a.scale_div ELSE 1
         IN  a.lambda_nm \div div

\* A variant that keeps a non-positive override.
InitFsKeepsOverride(a) == a.fs

\* fs_hz = args.fs if args.fs > 0 else 0.0
InitFs(a) == IF a.fs > 0 THEN a.fs ELSE 0

-----------------------------------------------------------------------------
(* The steps of the loop body on a line with a primary count.              *)

\* if fs_hz <= 0.0: fs_hz = 1000.0
DefaultedFsKeepsZero(fs) == fs

DefaultedFs(fs) == IF fs <= 0 THEN DefaultFs ELSE fs

\* A variant that starts the previous count at 0.
DeltaDFromZero(p, D) == IF p = None THEN D ELSE D - p[1]

\* dD = 0 on the first sample, else D - prevD
DeltaD(p, D) == IF p = None THEN 0 ELSE D - p[1]

\* A variant that scales the increment only.
IntegrateIncrementOnly(a, x, dx) == x + dx * a.straight_mult

\* x_nm = (x_nm + dx) * args.straight_mult
Integrate(a, x, dx) == (x + dx) * a.straight_mult

EmaOn(a) == a.ema_alpha[1] > 0

\* A variant of the EMA that starts from 0 instead of the first sample.
EmaStepSeedsZero(a, e, xr) ==
    IF ~EmaOn(a) THEN e
    ELSE Some(RAdd(RMul(a.ema_alpha, xr),
                   RMul(RSub(RInt(1), a.ema_alpha),
                        IF e = None THEN RInt(0) ELSE e[1])))

\* The EMA accumulator after a sample of value xr (a fraction).
EmaStep(a, e, xr) ==
    IF ~EmaOn(a) THEN e
    ELSE IF e = None THEN Some(xr)
    ELSE Some(RAdd(RMul(a.ema_alpha, xr),
                   RMul(RSub(RInt(1), a.ema_alpha), e[1])))

\* One channel of the compensation: 1 + k * (current - reference) when the
\* triple is active, else 1.
EnvFactorRefDefaultsZero(cur, ref0, k) ==
    IF cur # None /\ k[1] # 0
    THEN RAdd(RInt(1),
              RMul(k, RInt(cur[1] - (IF ref0 = None THEN 0 ELSE ref0[1]))))
    ELSE RInt(1)

EnvFactor(cur, ref0, k) ==
    IF cur # None /\ ref0 # None /\ k[1] # 0
    THEN RAdd(RInt(1), RMul(k, RInt(cur[1] - ref0[1])))
    ELSE RInt(1)

\* x_nm * scale, scale the product of the three channels
apply_env(x, a) ==
    RMul(RInt(x),
         RMul(RMul(EnvFactor(a.env_temp, a.env_temp0, a.env_ktemp),
                   EnvFactor(a.env_press, a.env_press0, a.env_kpress)),
              EnvFactor(a.env_hum, a.env_hum0, a.env_khum)))

\* A variant of the EMA that smooths the compensated displacement.
NextEmaOfCompensated(a, e, x) == EmaStep(a, e, apply_env(x, a))

\* ema_x = x_nm on the first sample, else alpha * x_nm + (1 - alpha) * ema_x
NextEma(a, e, x) == EmaStep(a, e, RInt(x))

\* A variant of clamp without the upper bound.
clampNoUpper(val, lo, hi) == IF RLess(val, lo) THEN lo ELSE val

\* lo if val < lo else hi if val > hi else val
clamp(val, lo, hi) ==
    IF RLess(val, lo) THEN lo ELSE IF RLess(hi, val) THEN hi ELSE val

\* An angle is asin(asin_of) * corr * 57.296, asin left uninterpreted; the
\* value 0.0 (asin(0) = 0, or a correction of 0) has one representation.
AngleZero == [asin_of |-> <<0, 1>>, corr |-> 0]
AsinTimes(q, c) ==
    IF q[1] = 0 \/ c = 0 THEN AngleZero ELSE [asin_of |-> q, corr |-> c]

angle_from_displacement(x, a) ==
    IF a.angle_norm_nm = 0 THEN AngleZero
    ELSE AsinTimes(clamp(RDiv(x, a.angle_norm_nm), RInt(-1), RInt(1)),
                   a.angle_corr)

\* A variant of the history that never evicts.
NextMaUnbounded(a, buf, x) == IF a.ma_window <= 0 THEN buf ELSE Append(buf, x)

\* deque(maxlen = ma_window).append(x)
NextMa(a, buf, x) ==
    IF a.ma_window <= 0 THEN buf
    ELSE IF Len(buf) >= a.ma_window
         THEN Append(SubSeq(buf, Len(buf) - a.ma_window + 2, Len(buf)), x)
         ELSE Append(buf, x)

\* A variant that divides by the window, not by the number of values held.
MaValueDividesByWindow(a, buf) ==
    IF a.ma_window <= 0 THEN None ELSE Some(RNorm(SumSeq(buf), a.ma_window))

\* sum(ma_buf) / len(ma_buf), None when the window is off
MaValue(a, buf) ==
    IF a.ma_window <= 0 THEN None ELSE Some(RNorm(SumSeq(buf), Len(buf)))

\* A variant whose on-step mode passes forward steps only.
ModeGateForwardOnly(a, dD) == IF a.emit = "onstep" THEN dD > 0 ELSE TRUE

\* The emission-mode gate.
ModeGate(a, dD) == IF a.emit = "onstep" THEN dD # 0 ELSE TRUE

\* A variant that forwards the first of every d, not the last.
DecimationGateFirstOfEvery(a, cnt) ==
    ~(a.decimate > 1 /\ (cnt % a.decimate) # 1)

\* The decimation gate, on the counter as already incremented.
DecimationGate(a, cnt) == ~(a.decimate > 1 /\ (cnt % a.decimate) # 0)

\* A variant that counts only the samples that survive decimation.
CountAcceptedAfterDecimation(a, cnt, pass) ==
    IF pass /\ DecimationGate(a, cnt + 1) THEN cnt + 1 ELSE cnt

\* emitted += 1 for a sample that passed the mode gate
CountAccepted(a, cnt, pass) == IF pass THEN cnt + 1 ELSE cnt

\* A variant that takes a window length of 0 for a configured one.
FftConfiguredAnyLen(a) == a.fft_len >= 0 /\ a.fft_every > 0

\* if args.fft_len > 0 and args.fft_every > 0
FftConfigured(a) == a.fft_len > 0 /\ a.fft_every > 0

\* A variant that ignores the trigger interval.
FftTriggerAlways(a, np, cnt) == FftConfigured(a) /\ np

\* np is not None and emitted % args.fft_every == 0
FftTrigger(a, np, cnt) ==
    FftConfigured(a) /\ np /\ (cnt % a.fft_every) = 0

\* fft_buf[-args.fft_len:]
Newest(buf, n) == SubSeq(buf, Len(buf) - n + 1, Len(buf))

\* The stream state, as one value.
StateOf ==
    [fs_hz |-> fs_hz, prevD |-> prevD, x_nm |-> x_nm, ema_x |-> ema_x,
     ma_buf |-> ma_buf, fft_buf |-> fft_buf, emitted |-> emitted]

\* The locals of one pass of the loop body over a line with primary count D,
\* from configuration a, stream state st and nm-per-count step.
LocalsOf(a, np, step, st, toks, D) ==
    LET fs1  == DefaultedFs(st.fs_hz)
        dD   == DeltaD(st.prevD, D)
        dx   == step * dD
        x1   == Integrate(a, st.x_nm, dx)
        v    == dx * fs1
        ema1 == NextEma(a, st.ema_x, x1)
        ma1  == NextMa(a, st.ma_buf, x1)
        pass == ModeGate(a, dD)
        cnt1 == CountAccepted(a, st.emitted, pass)
        keep == pass /\ DecimationGate(a, cnt1)
        trig == keep /\ FftTrigger(a, np, cnt1)
        sig  == IF a.fft_signal = "x" THEN x1 ELSE v
        buf1 == IF trig THEN Append(st.fft_buf, sig) ELSE st.fft_buf
    IN  [N |-> SeqNum(toks), D |-> D, fs |-> fs1, dD |-> dD, dx |-> dx,
         x |-> x1, v |-> v, ema |-> ema1, ma |-> ma1,
         env |-> apply_env(x1, a),
         ang |-> IF a.mode = "angle"
                 THEN Some(angle_from_displacement(x1, a)) ELSE None,
         x2 |-> IF "X" \in DOMAIN toks /\ a.enable_xy
                THEN Some(RNorm(toks["X"], 10)) ELSE None,
         y2 |-> IF "Y" \in DOMAIN toks /\ a.enable_xy
                THEN Some(RNorm(toks["Y"], 10)) ELSE None,
         pass |-> pass, cnt |-> cnt1, keep |-> keep, trig |-> trig,
         buf |-> buf1, snap |-> trig /\ Len(buf1) >= a.fft_len]

Locals(toks, D) ==
    LocalsOf(args, np_ok, step_nm_per_count, StateOf, toks, D)

\* The output record of a forwarded sample.  The type field tells records from
\* snapshots in out; the JSON object of a record carries no such key.
RecordOf(a, l) ==
    [type |-> "data", seq |-> l.N, fs_hz |-> l.fs, D |-> l.D, deltaD |-> l.dD,
     step_nm |-> l.dx, x_nm |-> l.x, v_nm_s |-> l.v,
     x_nm_ema |-> IF EmaOn(a) THEN l.ema ELSE None,
     x_nm_ma |-> MaValue(a, l.ma),
     x_nm_env |-> l.env, angle_deg |-> l.ang, x2 |-> l.x2, y2 |-> l.y2]

Record(l) == RecordOf(args, l)

\* The snapshot: win is the window the transform is computed over.
SnapshotOf(a, l) ==
    [type |-> "fft", signal |-> a.fft_signal, fs_hz |-> l.fs,
     win |-> Newest(l.buf, a.fft_len)]

Snapshot(l) == SnapshotOf(args, l)

\* The columns of a CSV row, in order.
FieldOrder ==
    <<"seq", "fs_hz", "D", "deltaD", "step_nm", "x_nm", "v_nm_s", "x_nm_ema",
      "x_nm_ma", "x_nm_env", "angle_deg", "x2", "y2">>

\* writerow([rec["seq"], rec["fs_hz"], ...])
Row(rec) == [i \in DOMAIN FieldOrder |-> rec[FieldOrder[i]]]

\* A variant that writes the snapshot ahead of the record.
WrittenOfSnapshotFirst(a, l) ==
    IF ~l.keep THEN <<>>
    ELSE IF l.snap THEN <<SnapshotOf(a, l), RecordOf(a, l)>>
    ELSE <<RecordOf(a, l)>>

\* What one pass writes to stdout: the record, then the snapshot if any.
WrittenOf(a, l) ==
    IF ~l.keep THEN <<>>
    ELSE IF l.snap THEN <<RecordOf(a, l), SnapshotOf(a, l)>>
    ELSE <<RecordOf(a, l)>>

\* The header row of the CSV output (stdout_writer.writerow of the names).
StdoutHeader(a) ==
    IF a.out = "csv" THEN <<[type |-> "csvheader", row |-> FieldOrder]>> ELSE <<>>

\* The configuration with every environmental triple inactive.
NoEnv(a) ==
    [a EXCEPT !.env_temp = None, !.env_temp0 = None, !.env_ktemp = <<0, 1>>,
              !.env_press = None, !.env_press0 = None, !.env_kpress = <<0, 1>>,
              !.env_hum = None, !.env_hum0 = None, !.env_khum = <<0, 1>>]

\* A variant in which a sample dropped by the mode gate or by decimation
\* leaves the integrator and the filters where they were.
AdvancedOnlyIfKept(st, l) ==
    IF l.keep
    THEN [fs_hz |-> l.fs, prevD |-> Some(l.D), x_nm |-> l.x, ema_x |-> l.ema,
          ma_buf |-> l.ma, fft_buf |-> l.buf, emitted |-> l.cnt]
    ELSE [st EXCEPT !.fs_hz = l.fs, !.emitted = l.cnt]

\* The stream state after a pass with locals l: every assignment of the
\* loop body, none of them under the gates but the buffer's.
Advanced(st, l) ==
    [fs_hz |-> l.fs, prevD |-> Some(l.D), x_nm |-> l.x, ema_x |-> l.ema,
     ma_buf |-> l.ma, fft_buf |-> l.buf, emitted |-> l.cnt]

\* One pass of the loop body over a line, as a function of the run r =
\* [st, out] of configuration a: the run that the history ref follows.
StepOf(a, np, step, r, line) ==
    IF line.kind = "blank" THEN r
    ELSE IF Truthy(maybe_extract_fs(line))
    THEN [r EXCEPT !.st.fs_hz = maybe_extract_fs(line)[1]]
    ELSE LET toks == parse_line_tokens(line.toks)
             pc   == PrimaryCount(toks)
         IN  IF pc = None THEN r
             ELSE LET l == LocalsOf(a, np, step, r.st, toks, pc[1])
                  IN  [st  |-> Advanced(r.st, l),
                       out |-> r.out \o WrittenOf(a, l)]

-----------------------------------------------------------------------------
(* Initial state: the state of main() when the loop is entered.            *)

\* log_exists = os.path.exists(args.log): the name os is bound by no import
\* of the module, so the call raises NameError whenever a log path is given.
LogOpenRaises(a) == a.log # None

\* BackendThread.__init__: no child, no thread, the flag down.
WorkerNew(nt) ==
    /\ os_nt = nt
    /\ w_stop = FALSE
    /\ w_proc = "none"
    /\ w_thread = "unstarted"
    /\ stop_pc = "idle"
    /\ calls = <<>>
    /\ pending = {}
    /\ bbuf = <<>>
    /\ pipe = <<>>
    /\ nwritten = 0
    /\ delivered = <<>>
    /\ events = <<>>
    /\ stop_live = FALSE

\* MainWindow.__init__: no worker, Start enabled, Stop disabled, no capture.
WindowNew(cc) ==
    /\ workers = <<>>
    /\ worker = 0
    /\ start_btn = TRUE
    /\ stop_btn = FALSE
    /\ capture_btn = FALSE
    /\ capture_active = FALSE
    /\ capture_file = "none"
    /\ capture_writer = FALSE
    /\ capture_disk = <<>>
    /\ open_files = 0
    /\ evq = <<>>
    /\ nread = 0
    /\ win_closed = FALSE
    /\ click_checked = cc

\* main() up to the loop, for configuration a on host h.
MainInit(a, np, h) ==
    /\ args = a
    /\ np_ok = np
    /\ host = h
    /\ step_nm_per_count = compute_step_nm(a)
    /\ fs_hz = InitFs(a)
    /\ x_nm = a.startnm
    /\ prevD = None
    /\ ema_x = None
    /\ ma_buf = <<>>
    /\ fft_buf = <<>>
    /\ emitted = 0
    /\ status = IF LogOpenRaises(a) THEN "crashed" ELSE "running"
    /\ log_writer = FALSE
    /\ log = <<>>
    /\ out = IF LogOpenRaises(a) THEN <<>> ELSE StdoutHeader(a)
    /\ ref = [st  |-> [fs_hz |-> InitFs(a), prevD |-> None, x_nm |-> a.startnm,
                       ema_x |-> None, ma_buf |-> <<>>, fft_buf |-> <<>>,
                       emitted |-> 0],
              out |-> StdoutHeader(a)]
    /\ nlines = 0
    /\ last = BlankLine
    /\ hdrs = <<>>
    /\ samples = <<>>

\* The pipeline run from a shell: no GUI worker takes part.
InitIn(a, np, h) ==
    MainInit(a, np, h) /\ WorkerNew(FALSE) /\ WindowNew(FALSE)

\* A host on which every write to stdout succeeds.
QuietHost == [log_exists |-> FALSE, stdout_fails |-> FALSE]

InitWith(a, np) == InitIn(a, np, QuietHost)

-----------------------------------------------------------------------------
(* One action per way through the loop body.                               *)

Consume(line) ==
    /\ status = "running"
    /\ nlines < MaxLines
    /\ nlines' = nlines + 1
    /\ last' = line
    /\ hdrs' = IF line.kind = "header" THEN Append(hdrs, line.fs) ELSE hdrs
    /\ ref' = StepOf(NoEnv(args), np_ok, step_nm_per_count, ref, line)
    /\ UNCHANGED <<guivars, winvars>>

\* line = raw.strip(); if not line: continue
Blank(line) ==
    /\ line.kind = "blank"
    /\ Consume(line)
    /\ UNCHANGED <<args, np_ok, step_nm_per_count, fs_hz, x_nm, prevD, ema_x,
                   ma_buf, fft_buf, emitted, out, log, log_writer, status,
                   host, samples>>

\* fs_found = maybe_extract_fs(line); if fs_found: fs_hz = fs_found; continue
Header(line) ==
    /\ line.kind # "blank"
    /\ Truthy(maybe_extract_fs(line))
    /\ Consume(line)
    /\ fs_hz' = maybe_extract_fs(line)[1]
    /\ UNCHANGED <<args, np_ok, step_nm_per_count, x_nm, prevD, ema_x,
                   ma_buf, fft_buf, emitted, out, log, log_writer, status,
                   host, samples>>

\* no usable primary count -> skip
Skip(line) ==
    /\ line.kind # "blank"
    /\ ~Truthy(maybe_extract_fs(line))
    /\ PrimaryCount(parse_line_tokens(line.toks)) = None
    /\ Consume(line)
    /\ UNCHANGED <<args, np_ok, step_nm_per_count, fs_hz, x_nm, prevD, ema_x,
                   ma_buf, fft_buf, emitted, out, log, log_writer, status,
                   host, samples>>

\* The writes of one pass that may raise: the record's write to stdout, the
\* snapshot's write to stdout.  Neither is inside a try block.
Faults(h, l) ==
    {"none"} \cup (IF h.stdout_fails /\ l.keep THEN {"record"} ELSE {})
             \cup (IF h.stdout_fails /\ l.snap THEN {"snapshot"} ELSE {})

\* a line with a primary count: integrate, filter, gate, emit, analyse
Data(line) ==
    /\ line.kind # "blank"
    /\ ~Truthy(maybe_extract_fs(line))
    /\ PrimaryCount(parse_line_tokens(line.toks)) # None
    /\ Consume(line)
    /\ LET toks == parse_line_tokens(line.toks)
           l    == Locals(toks, PrimaryCount(toks)[1])
       IN  \E fault \in Faults(host, l) :
           /\ fs_hz' = Advanced(StateOf, l).fs_hz
           /\ prevD' = Advanced(StateOf, l).prevD
           /\ x_nm' = Advanced(StateOf, l).x_nm
           /\ ema_x' = Advanced(StateOf, l).ema_x
           /\ ma_buf' = Advanced(StateOf, l).ma_buf
           /\ emitted' = Advanced(StateOf, l).emitted
           /\ status' = IF fault = "none" THEN status ELSE "crashed"
           /\ out' = CASE fault = "none" -> out \o WrittenOf(args, l)
                       [] fault = "record" -> out
                       [] fault = "snapshot" -> Append(out, Record(l))
           /\ log' = IF l.keep /\ log_writer /\ fault # "record"
                     THEN Append(log, Row(Record(l))) ELSE log
           /\ fft_buf' = IF fault = "record" THEN fft_buf
                         ELSE Advanced(StateOf, l).fft_buf
           /\ samples' = Append(samples, [dD |-> l.dD, dx |-> l.dx, v |-> l.v,
                                          pass |-> l.pass, keep |-> l.keep,
                                          fault |-> fault, D |-> l.D,
                                          x |-> l.x])
    /\ UNCHANGED <<args, np_ok, step_nm_per_count, log_writer, host>>

\* A fourth rising count, D:4, read by the runs whose moving-average window
\* holds three values: four samples are needed to see a full window move.
RisingLine == TokenLine(<< <<"D", 40>> >>)

\* The lines a run may read.
InputLines == Lines \cup (IF args.ma_window >= 3 THEN {RisingLine} ELSE {})

Next ==
    \E line \in InputLines :
        \/ Blank(line)
        \/ Header(line)
        \/ Skip(line)
        \/ Data(line)

-----------------------------------------------------------------------------
(* Specifications: the same loop under different sets of configurations.   *)

\* Emission policy and integrator.
EmitConfigs ==
    { [BaseArgs EXCEPT !.emit = e, !.decimate = d, !.startnm = 1,
                       !.straight_mult = m, !.stepnm = Some(2)] :
        e \in {"every", "onstep"}, d \in {0, 1, 2, 3}, m \in {1, 2} }

Init == \E a \in EmitConfigs : InitWith(a, TRUE)

Spec == Init /\ [][Next]_vars

\* Frequency tracking: the override is negative, absent or positive.
FsConfigs ==
    { [BaseArgs EXCEPT !.fs = f, !.stepnm = Some(2)] : f \in {-5, 0, 500} }

InitFsSpec == \E a \in FsConfigs : InitWith(a, TRUE)

SpecFs == InitFsSpec /\ [][Next]_vars

\* Tokenizer: every filter and the analyzer are on, so that every part of
\* the stream state moves on a sample.
TokConfigs ==
    { [BaseArgs EXCEPT !.emit = e, !.ema_alpha = <<1, 2>>, !.ma_window = 2,
                       !.fft_len = 1, !.fft_every = 1] :
        e \in {"every", "onstep"} }

InitTokSpec == \E a \in TokConfigs : InitWith(a, TRUE)

SpecTok == InitTokSpec /\ [][Next]_vars

\* Spectral analysis: window, interval, signal, decimation and the
\* availability of numpy vary.
FftArgs(n, k, g, e, d) ==
    [BaseArgs EXCEPT !.fft_len = n, !.fft_every = k, !.fft_signal = g,
                     !.emit = e, !.decimate = d, !.stepnm = Some(2)]

FftModes == {<<"every", 1>>, <<"every", 2>>, <<"onstep", 1>>}
FftWindows ==
    {<<0, 1>>, <<1, 0>>, <<1, 1>>, <<1, 2>>, <<2, 1>>, <<2, 2>>}

FftConfigs ==
    { FftArgs(w[1], w[2], "x", m[1], m[2]) : w \in FftWindows, m \in FftModes }
    \cup { FftArgs(n, n, "v", "every", 1) : n \in {1, 2} }

InitFftSpec ==
    \/ \E a \in FftConfigs : InitWith(a, TRUE)
    \/ InitWith(FftArgs(1, 1, "x", "every", 1), FALSE)

SpecFft == InitFftSpec /\ [][Next]_vars

\* Environmental compensation: the temperature triple is active, lacks its
\* reference, has a zero coefficient or is absent; the pressure triple is
\* active or not; both smoothers and the angle are on, so that every derived
\* field of a record is live.
EnvArgs(t, p, e) ==
    [BaseArgs EXCEPT !.stepnm = Some(2), !.startnm = 6, !.emit = e,
                     !.ema_alpha = <<1, 2>>, !.ma_window = 2,
                     !.mode = "angle", !.angle_norm_nm = 16,
                     !.env_temp = t[1], !.env_temp0 = t[2], !.env_ktemp = t[3],
                     !.env_press = p, !.env_press0 = Some(1),
                     !.env_kpress = <<1, 2>>]

TempTriples ==
    { <<Some(25), Some(20), <<1, 100>> >>, <<Some(25), None, <<1, 100>> >>,
      <<Some(25), Some(20), <<0, 1>> >>, <<None, None, <<0, 1>> >> }

EnvConfigs ==
    { EnvArgs(t, p, e) :
        t \in TempTriples, p \in {None, Some(3)}, e \in {"every", "onstep"} }

InitEnvSpec == \E a \in EnvConfigs : InitWith(a, TRUE)

SpecEnv == InitEnvSpec /\ [][Next]_vars

\* Angle conversion: both modes, a zero and a nonzero normalization length,
\* a start on either side of the range of asin.
AngleConfigs ==
    { [BaseArgs EXCEPT !.stepnm = Some(2), !.mode = m, !.angle_norm_nm = n,
                       !.startnm = x0, !.angle_corr = 3] :
        m \in {"displacement", "angle"}, n \in {0, 4}, x0 \in {-6, 0, 6} }

InitAngleSpec == \E a \in AngleConfigs : InitWith(a, TRUE)

SpecAngle == InitAngleSpec /\ [][Next]_vars

\* Smoothing: the moving-average window is off, shorter or longer than the
\* input; the EMA is off or on; samples are forwarded, or gated or decimated
\* under a straightness multiplier of 2.
SmoothArgs(w, al, m) ==
    [BaseArgs EXCEPT !.ma_window = w, !.ema_alpha = al,
                     !.emit = m[1], !.decimate = m[2], !.straight_mult = m[3],
                     !.stepnm = Some(IF al[1] = 0 THEN 2 ELSE 10),
                     !.startnm = IF al[1] = 0 THEN 2 ELSE 10]

SmoothConfigs ==
    { SmoothArgs(w, al, m) :
        w \in {0, 2, 3}, al \in {<<0, 1>>, <<1, 2>>},
        m \in {<<"every", 1, 1>>, <<"onstep", 1, 2>>, <<"every", 2, 2>>} }

InitSmoothSpec == \E a \in SmoothConfigs : InitWith(a, TRUE)

SpecSmooth == InitSmoothSpec /\ [][Next]_vars

\* Frequency of records and snapshots: the override is negative, absent or
\* positive, and every forwarded sample yields a snapshot.
FreqConfigs ==
    { [BaseArgs EXCEPT !.fs = f, !.stepnm = Some(2), !.fft_len = 1,
                       !.fft_every = 1, !.fft_signal = g] :
        f \in {-5, 0, 500}, g \in {"x", "v"} }

InitFreqSpec == \E a \in FreqConfigs : InitWith(a, TRUE)

SpecFreq == InitFreqSpec /\ [][Next]_vars

\* Sinks: a log target or none, either output format, on hosts where the log
\* file exists or not and where a write to stdout may raise.
SinkConfigs ==
    { [BaseArgs EXCEPT !.stepnm = Some(2), !.log = g, !.out = o,
                       !.decimate = d, !.fft_len = 1, !.fft_every = 2] :
        g \in {None, Some("run.csv")}, o \in {"jsonl", "csv"}, d \in {1, 2} }

Hosts == [log_exists : BOOLEAN, stdout_fails : BOOLEAN]

InitSinkSpec == \E a \in SinkConfigs, h \in Hosts : InitIn(a, TRUE, h)

SpecSink == InitSinkSpec /\ [][Next]_vars

-----------------------------------------------------------------------------
(* gui.py: a BackendThread, the child process it spawns and the pipe        *)
(* between them.  A line in the pipe is the number of the complete line     *)
(* the child wrote, or TruncatedLine for the front part of a line whose     *)
(* rest was never written.                                                  *)

TruncatedLine == 0

\* json.loads(line): the child writes JSON objects only (umd2.py:324, 352),
\* so a line parses unless it was cut short.
Parses(line) == line # TruncatedLine

\* A variant of stop() that never interrupts.
StopSequenceTerminateOnly(nt) == <<"TERM">>

\* The signals stop() asks of a running child: terminate() on Windows, else
\* send_signal(SIGINT), a sleep of 0.2 s, terminate().
StopSequence(nt) == IF nt THEN <<"TERM">> ELSE <<"INT", "TERM">>

\* Popen.send_signal / terminate: nothing is delivered to a child that is
\* not running any more.
Signalled(by, op) ==
    /\ calls' = Append(calls, [by |-> by, op |-> op])
    /\ pending' = IF w_proc = "running" THEN pending \cup {op} ELSE pending

\* BackendThread.start()
Start ==
    /\ w_thread = "unstarted"
    /\ w_stop' = FALSE
    /\ w_thread' = "spawn"
    /\ UNCHANGED <<os_nt, w_proc, stop_pc, calls, pending, bbuf, pipe,
                   nwritten, delivered, events, stop_live, mainvars, winvars>>

\* BackendThread.stop(), up to its sleep.  MainWindow disables the stop
\* button once it was pressed, so a worker is stopped at most once.
Stop ==
    /\ w_thread # "unstarted" /\ ~w_stop /\ stop_pc = "idle"
    /\ w_stop' = TRUE
    /\ IF w_proc = "running"
       THEN /\ stop_live' = TRUE
            /\ Signalled("stop", StopSequence(os_nt)[1])
            /\ stop_pc' = IF Len(StopSequence(os_nt)) > 1 THEN "sleep" ELSE "idle"
       ELSE UNCHANGED <<stop_live, calls, pending, stop_pc>>
    /\ UNCHANGED <<os_nt, w_proc, w_thread, bbuf, pipe, nwritten, delivered,
                   events, mainvars, winvars>>

\* stop() after time.sleep(0.2): self._proc.terminate()
StopTerminate ==
    /\ stop_pc = "sleep"
    /\ Signalled("stop", StopSequence(os_nt)[2])
    /\ stop_pc' = "idle"
    /\ UNCHANGED <<os_nt, w_stop, w_proc, w_thread, bbuf, pipe, nwritten,
                   delivered, events, stop_live, mainvars, winvars>>

\* _run: subprocess.Popen(...) succeeds, or raises
RunSpawn ==
    /\ w_thread = "spawn"
    /\ \/ /\ w_proc' = "running"
          /\ events' = Append(events, "started")
          /\ w_thread' = "loop"
       \/ /\ w_proc' = w_proc
          /\ events' = events \o <<"error", "stopped:spawn-failed">>
          /\ w_thread' = "done"
    /\ UNCHANGED <<os_nt, w_stop, stop_pc, calls, pending, bbuf, pipe,
                   nwritten, delivered, stop_live, mainvars, winvars>>

\* What line_received.emit adds to the histories for a line read.
Emitted(line) ==
    /\ delivered' = IF Parses(line) THEN Append(delivered, line) ELSE delivered
    /\ events' = IF Parses(line) THEN Append(events, "line_received") ELSE events

\* A variant of the loop that tests the stop flag after the emit.
RunReadDeliversThenBreaks ==
    /\ w_thread = "loop"
    /\ pipe # <<>>
    /\ pipe' = Tail(pipe)
    /\ w_thread' = IF w_stop THEN "finally" ELSE w_thread
    /\ Emitted(Head(pipe))
    /\ UNCHANGED <<os_nt, w_stop, w_proc, stop_pc, calls, pending, bbuf,
                   nwritten, stop_live, mainvars, winvars>>

\* _run: one turn of 'for line in self._proc.stdout'
RunRead ==
    /\ w_thread = "loop"
    /\ pipe # <<>>
    /\ pipe' = Tail(pipe)
    /\ IF w_stop
       THEN w_thread' = "finally" /\ UNCHANGED <<delivered, events>>
       ELSE w_thread' = w_thread /\ Emitted(Head(pipe))
    /\ UNCHANGED <<os_nt, w_stop, w_proc, stop_pc, calls, pending, bbuf,
                   nwritten, stop_live, mainvars, winvars>>

\* _run: the pipe is empty and its write end is closed
RunEof ==
    /\ w_thread = "loop"
    /\ pipe = <<>>
    /\ w_proc = "exited"
    /\ w_thread' = "finally"
    /\ UNCHANGED <<os_nt, w_stop, w_proc, stop_pc, calls, pending, bbuf, pipe,
                   nwritten, delivered, events, stop_live, mainvars, winvars>>

\* _run: finally: self._proc.terminate(); self.stopped.emit("exited")
RunFinally ==
    /\ w_thread = "finally"
    /\ Signalled("run", "TERM")
    /\ events' = Append(events, "stopped:exited")
    /\ w_thread' = "done"
    /\ UNCHANGED <<os_nt, w_stop, w_proc, stop_pc, bbuf, pipe, nwritten,
                   delivered, stop_live, mainvars, winvars>>

\* The child writes a record: sys.stdout.write into the buffer of a stdout
\* that is a pipe (the GUI passes no -u and umd2.py never flushes).
ChildWrite ==
    /\ w_proc = "running"
    /\ nwritten < MaxWrites
    /\ nwritten' = nwritten + 1
    /\ bbuf' = Append(bbuf, nwritten + 1)
    /\ UNCHANGED <<os_nt, w_stop, w_proc, w_thread, stop_pc, calls, pending,
                   pipe, delivered, events, stop_live, mainvars, winvars>>

\* The child's stdout buffer is full and goes to the pipe.
ChildFlush ==
    /\ w_proc = "running"
    /\ bbuf # <<>>
    /\ pipe' = pipe \o bbuf
    /\ bbuf' = <<>>
    /\ UNCHANGED <<os_nt, w_stop, w_proc, w_thread, stop_pc, calls, pending,
                   nwritten, delivered, events, stop_live, mainvars, winvars>>

\* The child ends on its own (end of input, or an exception): the
\* interpreter flushes stdout on its way out.
ChildExit ==
    /\ w_proc = "running"
    /\ pending = {}
    /\ pipe' = pipe \o bbuf
    /\ bbuf' = <<>>
    /\ w_proc' = "exited"
    /\ UNCHANGED <<os_nt, w_stop, w_thread, stop_pc, calls, pending, nwritten,
                   delivered, events, stop_live, mainvars, winvars>>

\* SIGINT: KeyboardInterrupt leaves main(), stdout is flushed at exit.
ChildInterrupted ==
    /\ w_proc = "running"
    /\ "INT" \in pending
    /\ pipe' = pipe \o bbuf
    /\ bbuf' = <<>>
    /\ w_proc' = "exited"
    /\ pending' = {}
    /\ UNCHANGED <<os_nt, w_stop, w_thread, stop_pc, calls, nwritten,
                   delivered, events, stop_live, mainvars, winvars>>

\* SIGTERM / TerminateProcess: the child dies at once; what its buffer held
\* is gone, but for the front part of a line already in the pipe.
ChildKilled ==
    /\ w_proc = "running"
    /\ "TERM" \in pending
    /\ \/ pipe' = pipe
       \/ bbuf # <<>> /\ pipe' = Append(pipe, TruncatedLine)
    /\ bbuf' = <<>>
    /\ w_proc' = "exited"
    /\ pending' = {}
    /\ UNCHANGED <<os_nt, w_stop, w_thread, stop_pc, calls, nwritten,
                   delivered, events, stop_live, mainvars, winvars>>

NextGui ==
    \/ Start
    \/ Stop
    \/ StopTerminate
    \/ RunSpawn
    \/ RunRead
    \/ RunEof
    \/ RunFinally
    \/ ChildWrite
    \/ ChildFlush
    \/ ChildExit
    \/ ChildInterrupted
    \/ ChildKilled

\* MainWindow._build_args: "Always output JSONL to the GUI"
GuiArgs == [BaseArgs EXCEPT !.out = "jsonl"]

InitGui ==
    /\ MainInit(GuiArgs, TRUE, QuietHost)
    /\ \E nt \in BOOLEAN : WorkerNew(nt)
    /\ WindowNew(FALSE)

\* The reader thread and the sleeping stop() are scheduled, and a signal
\* delivered to the child acts on it.
FairGui ==
    /\ WF_vars(StopTerminate)
    /\ WF_vars(RunSpawn)
    /\ WF_vars(RunRead)
    /\ WF_vars(RunEof)
    /\ WF_vars(RunFinally)
    /\ WF_vars(ChildInterrupted)
    /\ WF_vars(ChildKilled)

SpecGui == InitGui /\ [][NextGui]_vars /\ FairGui

-----------------------------------------------------------------------------
(* gui.py: MainWindow.  Its handlers run one at a time on the GUI thread;   *)
(* the notifications of the readers reach it through the event queue, in   *)
(* the order they were emitted.  A worker stands for a BackendThread with   *)
(* its reader and its child, without the pipe's contents.                  *)

capvars == <<capture_btn, capture_active, capture_file, capture_writer,
             capture_disk, open_files>>

\* The first row of a new capture file: CSV_HEADER
HeaderRow == [w |-> 0, kind |-> "header"]

\* _set_running(running)
SetRunning(running) ==
    /\ start_btn' = ~running
    /\ stop_btn' = running

\* _toggle_capture, the branch "stop capture": flush and close the file
CaptureOff ==
    /\ capture_active' = FALSE
    /\ capture_btn' = FALSE
    /\ capture_file' = "none"
    /\ capture_writer' = FALSE
    /\ open_files' = IF capture_file = "open" THEN open_files - 1 ELSE open_files
    /\ capture_disk' = capture_disk

\* A variant of the forced stop that does nothing.
ForceOffIfActiveNever == UNCHANGED capvars

\* if self.capture_active: self._toggle_capture(force_off=True)
ForceOffIfActive == IF capture_active THEN CaptureOff ELSE UNCHANGED capvars

\* _toggle_capture, the branch "start capture": no path chosen; the file is
\* opened (and gets the header if it is new); or opening it fails.
CaptureOn(checked) ==
    \/ /\ capture_btn' = FALSE
       /\ UNCHANGED <<capture_active, capture_file, capture_writer,
                      capture_disk, open_files>>
    \/ /\ capture_btn' = checked
       /\ capture_file' = "open"
       /\ capture_writer' = TRUE
       /\ capture_active' = TRUE
       /\ capture_disk' = IF capture_disk = <<>> THEN <<HeaderRow>>
                          ELSE capture_disk
       /\ open_files' = IF capture_file = "open" THEN open_files ELSE open_files + 1
    \/ /\ capture_btn' = FALSE
       /\ capture_file' = "none"
       /\ capture_writer' = FALSE
       /\ capture_active' = FALSE
       /\ capture_disk' = capture_disk
       /\ open_files' = IF capture_file = "open" THEN open_files - 1 ELSE open_files

\* A variant of _on_line that captures snapshots as well.
CapturedKindsAll == {"data", "fft"}

\* _on_line returns on a record of type "fft" before the capture.
CapturedKinds == {"data"}

\* What the window's run has used of its bound: a launch counts as two
\* lines read.
Used == 2 * Len(workers) + nread

\* Start clicked: _start makes a BackendThread and starts its reader.  The
\* button stays as it is until a 'started' notification is handled.
ClickStart ==
    /\ ~win_closed /\ start_btn
    /\ Used + 2 <= MaxWrites + 1
    /\ workers' = Append(workers, [thread |-> "spawn", stop |-> FALSE,
                                   proc |-> "none"])
    /\ worker' = Len(workers) + 1
    /\ UNCHANGED <<start_btn, stop_btn, capvars, evq, nread, win_closed,
                   click_checked, mainvars, guivars>>

\* Stop clicked: _stop stops self.worker (the flag is set and the child is
\* signalled; the child is alive until it exits), enables Start, ends the
\* capture.
ClickStop ==
    /\ ~win_closed /\ stop_btn
    /\ workers' = IF worker = 0 THEN workers
                  ELSE [workers EXCEPT ![worker].stop = TRUE]
    /\ SetRunning(FALSE)
    /\ ForceOffIfActive
    /\ UNCHANGED <<worker, evq, nread, win_closed, click_checked, mainvars,
                   guivars>>

\* The capture button clicked: Qt flips its checked state, then calls
\* _toggle_capture, whose parameter force_off takes the signal's argument
\* where the binding hands it over.
ClickCapture ==
    /\ ~win_closed
    /\ LET checked   == ~capture_btn
           force_off == click_checked /\ checked
       IN  IF force_off \/ (capture_active /\ ~checked)
           THEN CaptureOff
           ELSE CaptureOn(checked)
    /\ UNCHANGED <<workers, worker, start_btn, stop_btn, evq, nread,
                   win_closed, click_checked, mainvars, guivars>>

\* closeEvent
CloseWindow ==
    /\ ~win_closed
    /\ win_closed' = TRUE
    /\ ForceOffIfActive
    /\ UNCHANGED <<workers, worker, start_btn, stop_btn, evq, nread,
                   click_checked, mainvars, guivars>>

\* The GUI thread handles 'started': lambda: self._set_running(True)
OnStarted ==
    /\ ~win_closed /\ evq # <<>> /\ Head(evq).kind = "started"
    /\ evq' = Tail(evq)
    /\ SetRunning(TRUE)
    /\ UNCHANGED <<workers, worker, capvars, nread, win_closed, click_checked,
                   mainvars, guivars>>

\* The GUI thread handles 'stopped': _on_stopped
OnStopped ==
    /\ ~win_closed /\ evq # <<>> /\ Head(evq).kind = "stopped"
    /\ evq' = Tail(evq)
    /\ SetRunning(FALSE)
    /\ ForceOffIfActive
    /\ UNCHANGED <<workers, worker, nread, win_closed, click_checked,
                   mainvars, guivars>>

\* The GUI thread handles 'error': a status message
OnError ==
    /\ ~win_closed /\ evq # <<>> /\ Head(evq).kind = "error"
    /\ evq' = Tail(evq)
    /\ UNCHANGED <<workers, worker, start_btn, stop_btn, capvars, nread,
                   win_closed, click_checked, mainvars, guivars>>

\* The GUI thread handles 'line_received': _on_line.  The row is written, or
\* the write raises and is reported.
OnLine ==
    /\ ~win_closed /\ evq # <<>> /\ Head(evq).kind \in {"data", "fft"}
    /\ evq' = Tail(evq)
    /\ IF Head(evq).kind \in CapturedKinds /\ capture_active /\ capture_writer
       THEN \/ capture_disk' = Append(capture_disk, Head(evq))
            \/ capture_disk' = capture_disk
       ELSE capture_disk' = capture_disk
    /\ UNCHANGED <<workers, worker, start_btn, stop_btn, capture_btn,
                   capture_active, capture_file, capture_writer, open_files,
                   nread, win_closed, click_checked, mainvars, guivars>>

\* The notification of worker w, as queued.
Note(w, kind) == [w |-> w, kind |-> kind]

\* _run of worker w: Popen succeeds, or raises
WSpawn(w) ==
    /\ workers[w].thread = "spawn"
    /\ \/ /\ workers' = [workers EXCEPT ![w].thread = "loop",
                                        ![w].proc = "running"]
          /\ evq' = Append(evq, Note(w, "started"))
       \/ /\ workers' = [workers EXCEPT ![w].thread = "done"]
          /\ evq' = evq \o <<Note(w, "error"), Note(w, "stopped")>>
    /\ UNCHANGED <<worker, start_btn, stop_btn, capvars, nread, win_closed,
                   click_checked, mainvars, guivars>>

\* _run of worker w reads a line: break on the stop flag, else emit it
WLine(w) ==
    /\ workers[w].thread = "loop"
    /\ Used + 1 <= MaxWrites + 1
    /\ nread' = nread + 1
    /\ IF workers[w].stop
       THEN /\ workers' = [workers EXCEPT ![w].thread = "finally"]
            /\ evq' = evq
       ELSE /\ workers' = workers
            /\ \E kind \in {"data", "fft"} : evq' = Append(evq, Note(w, kind))
    /\ UNCHANGED <<worker, start_btn, stop_btn, capvars, win_closed,
                   click_checked, mainvars, guivars>>

\* The child of worker w ends, on its own or on a signal.
WChildExit(w) ==
    /\ workers[w].proc = "running"
    /\ workers' = [workers EXCEPT ![w].proc = "exited"]
    /\ UNCHANGED <<worker, start_btn, stop_btn, capvars, evq, nread,
                   win_closed, click_checked, mainvars, guivars>>

\* _run of worker w: the child's stdout is at end of file
WEof(w) ==
    /\ workers[w].thread = "loop"
    /\ workers[w].proc = "exited"
    /\ workers' = [workers EXCEPT ![w].thread = "finally"]
    /\ UNCHANGED <<worker, start_btn, stop_btn, capvars, evq, nread,
                   win_closed, click_checked, mainvars, guivars>>

\* _run of worker w: finally: signal the child, emit stopped
WFinally(w) ==
    /\ workers[w].thread = "finally"
    /\ workers' = [workers EXCEPT ![w].thread = "done"]
    /\ evq' = Append(evq, Note(w, "stopped"))
    /\ UNCHANGED <<worker, start_btn, stop_btn, capvars, nread, win_closed,
                   click_checked, mainvars, guivars>>

\* The reader threads and children run as long as the application does.
WorkerStep ==
    /\ ~win_closed
    /\ \E w \in DOMAIN workers :
          \/ WSpawn(w)
          \/ WLine(w)
          \/ WChildExit(w)
          \/ WEof(w)
          \/ WFinally(w)

NextWin ==
    \/ ClickStart
    \/ ClickStop
    \/ ClickCapture
    \/ CloseWindow
    \/ OnStarted
    \/ OnStopped
    \/ OnError
    \/ OnLine
    \/ WorkerStep

InitWin ==
    /\ MainInit(GuiArgs, TRUE, QuietHost)
    /\ WorkerNew(FALSE)
    /\ \E cc \in BOOLEAN : WindowNew(cc)

SpecWin == InitWin /\ [][NextWin]_vars

-----------------------------------------------------------------------------
(* What the claims speak of, read off the output and the history.          *)

DataRecords(s) == SelectSeq(s, LAMBDA r : r.type = "data")
Snapshots(s) == SelectSeq(s, LAMBDA r : r.type = "fft")

\* The number of samples among the first i that passed the mode gate.
PassedUpTo(i) == Cardinality({j \in 1..i : samples[j].pass})
NumPassed == PassedUpTo(Len(samples))
NumKept == Cardinality({j \in DOMAIN samples : samples[j].keep})

\* Whether the text of a line holds a token of key K, in any case.
HasKey(line, K) == \E i \in DOMAIN line.toks : Upper(line.toks[i][1]) = K
CarriesPrimary(line) ==
    line.kind = "tokens" /\ (HasKey(line, "DIFF") \/ HasKey(line, "D"))

\* The value, in tenths, of the last token of key K of a line.
LastVal(line, K) ==
    LET I == {i \in DOMAIN line.toks : Upper(line.toks[i][1]) = K}
    IN  line.toks[CHOOSE i \in I : \A j \in I : j <= i][2]

\* What this step appended to the output.
Appended == SubSeq(out', Len(out) + 1, Len(out'))
Stepped == nlines' = nlines + 1

\* The recurrence x := (x + dx) * straight_mult over a sequence of steps dx.
RECURSIVE Recurrence(_, _)
Recurrence(x0, steps) ==
    IF steps = <<>> THEN x0
    ELSE (Recurrence(x0, SubSeq(steps, 1, Len(steps) - 1)) + steps[Len(steps)])
             * args.straight_mult

\* The per-sample steps dx of every sample, and of those that passed the mode gate.
DxOf(s) == [i \in DOMAIN s |-> s[i].dx]
AllSteps == DxOf(samples)
PassedSteps == DxOf(SelectSeq(samples, LAMBDA r : r.pass))

-----------------------------------------------------------------------------
\* C1: a sample that passed the mode gate is forwarded exactly when the
\* accepted-sample counter, incremented for it, is a multiple of the
\* decimation factor d; after k such samples floor(k/d) records are out,
\* and a factor <= 1 forwards every counted sample.
C1_Decimation ==
    LET d == args.decimate
    IN  /\ emitted = NumPassed
        /\ Len(DataRecords(out)) = NumKept
        /\ \A i \in DOMAIN samples :
              /\ ~samples[i].pass => ~samples[i].keep
              /\ samples[i].pass =>
                   (samples[i].keep <=> (d <= 1 \/ PassedUpTo(i) % d = 0))
        /\ Len(DataRecords(out)) = IF d > 1 THEN NumPassed \div d ELSE NumPassed

\* C1 witness: on-step mode, d = 3, three nonzero deltas, one record.
W1_OnStepThirdForwarded ==
    /\ args.emit = "onstep" /\ args.decimate = 3
    /\ NumPassed = 3 /\ Len(samples) = 4
    /\ Len(DataRecords(out)) = 1

\* C2 as stated: the first record forwarded in the run reports count
\* delta 0 and velocity 0, in every mode and for every decimation factor.
CE2_FirstRecordZero ==
    DataRecords(out) # <<>> =>
        /\ DataRecords(out)[1].deltaD = 0
        /\ DataRecords(out)[1].v_nm_s = 0

\* C2 amended: the first sample carrying a primary count has count delta 0
\* and velocity 0; it is the first forwarded record, which then reports
\* delta 0 and velocity 0, when the mode is "every" and the decimation
\* factor is <= 1.
C2_FirstSampleZero ==
    /\ samples # <<>> => samples[1].dD = 0 /\ samples[1].v = 0
    /\ (args.emit = "every" /\ args.decimate <= 1 /\ DataRecords(out) # <<>>) =>
          /\ DataRecords(out)[1].deltaD = 0
          /\ DataRecords(out)[1].v_nm_s = 0
          /\ samples[1].keep

\* C2 witness: "every" mode without decimation, a first record of a nonzero
\* count followed by a record with a nonzero delta.
W2_FirstRecordOfNonzeroCount ==
    /\ args.emit = "every" /\ args.decimate <= 1
    /\ Len(DataRecords(out)) >= 2
    /\ DataRecords(out)[1].D # 0
    /\ DataRecords(out)[2].deltaD # 0

\* C3: the accepted-sample counter never decreases; a step adds exactly one
\* when its line carries a primary count and the sample passes the mode gate
\* (dropped by decimation or not), and every other line leaves it unchanged.
C3_CounterSteps ==
    [][ Stepped =>
          LET isSample == CarriesPrimary(last')
              passes == /\ isSample
                        /\ \/ args.emit = "every"
                           \/ samples'[Len(samples')].dD # 0
          IN  /\ emitted' >= emitted
              /\ isSample <=> (Len(samples') = Len(samples) + 1)
              /\ emitted' = IF passes THEN emitted + 1 ELSE emitted ]_vars

\* C3 witness: on-step mode with d = 2, after a delta-0 sample, a counted
\* sample dropped by decimation, a forwarded one, and then a header line.
W3_CountedButDropped ==
    /\ args.emit = "onstep" /\ args.decimate = 2
    /\ emitted = 2
    /\ \E i \in DOMAIN samples : samples[i].pass /\ ~samples[i].keep
    /\ \E i \in DOMAIN samples : ~samples[i].pass
    /\ last.kind = "header"

\* C4 as stated: the cumulative displacement is the recurrence applied once
\* per accepted sample (as many times as the accepted-sample counter says).
CE4_CompoundedPerAccepted ==
    /\ x_nm = Recurrence(args.startnm, PassedSteps)
    /\ Len(PassedSteps) = emitted

\* C4 amended: the cumulative displacement is the recurrence applied once
\* per line carrying a primary count, whether or not the sample passes the
\* mode gate; the number of compoundings equals the accepted-sample counter
\* in "every" mode.
C4_CompoundedPerSample ==
    /\ x_nm = Recurrence(args.startnm, AllSteps)
    /\ args.emit = "every" => Len(samples) = emitted

\* C4 witness: on-step mode, multiplier 2, samples with delta 0 that were
\* not counted but were compounded.
W4_CompoundedUncounted ==
    /\ args.emit = "onstep" /\ args.straight_mult = 2
    /\ Len(samples) >= 3 /\ emitted = 1
    /\ x_nm # Recurrence(args.startnm, PassedSteps)

C6_DefaultFrequency ==
    (args.fs <= 0 /\ hdrs = <<>>) =>
        /\ fs_hz = IF samples = <<>> THEN 0 ELSE 1000
        /\ \A i \in DOMAIN out : out[i].fs_hz = 1000

\* C6 witness: a negative override, no header, two samples and then a line
\* without a primary count, the frequency still 1000.
W6_DefaultedAndKept ==
    /\ args.fs < 0 /\ hdrs = <<>>
    /\ Len(samples) >= 2 /\ fs_hz = 1000
    /\ last.kind = "tokens" /\ ~CarriesPrimary(last)

\* C7: a step over a non-header line with neither a DIFF nor a D token
\* writes nothing and leaves the frequency, the previous count, the
\* cumulative displacement, the EMA accumulator, the moving-average history,
\* the accepted-sample counter and the spectral buffer unchanged.
C7_NoPrimaryNoEffect ==
    [][ (/\ Stepped
         /\ last'.kind # "header"
         /\ ~HasKey(last', "DIFF") /\ ~HasKey(last', "D")) =>
            UNCHANGED <<fs_hz, prevD, x_nm, ema_x, ma_buf, emitted, fft_buf, out>>
      ]_vars

\* C7 witness: a line with only an N token consumed when every part of the
\* stream state has been set by earlier samples.
W7_SkippedWithLiveState ==
    /\ last.kind = "tokens" /\ HasKey(last, "N") /\ ~CarriesPrimary(last)
    /\ fs_hz = 2000 /\ prevD # None /\ x_nm # 0
    /\ ema_x # None /\ Len(ma_buf) = 2 /\ fft_buf # <<>>
    /\ emitted > 0 /\ out # <<>>

\* C8: the primary count of a line is its DIFF value when it carries DIFF
\* (with or without D) and its D value when it carries only D, as an integer
\* (int() of the token, the token itself when it is an integer); the
\* record's sequence number is the value of N, or 0 without N.
C8_PrimaryAndSeq ==
    [][ (Stepped /\ CarriesPrimary(last')) =>
          LET key  == IF HasKey(last', "DIFF") THEN "DIFF" ELSE "D"
              val  == LastVal(last', key)
              want == IF val >= 0 THEN val \div 10 ELSE -((-val) \div 10)
              nval == IF HasKey(last', "N") THEN LastVal(last', "N") ELSE 0
              seq  == IF nval >= 0 THEN nval \div 10 ELSE -((-nval) \div 10)
          IN  /\ val % 10 = 0 => want * 10 = val
              /\ prevD' = Some(want)
              /\ \A i \in DOMAIN Appended :
                    Appended[i].type = "data" =>
                        Appended[i].D = want /\ Appended[i].seq = seq
      ]_vars

\* C8 witness: a record from "diff:3 D:1 N:9" (count 3, sequence 9) and a
\* record from "D:2" (count 2, sequence 0).
W8_DiffWinsAndSeqDefault ==
    /\ \E i \in DOMAIN out :
          out[i].type = "data" /\ out[i].D = 3 /\ out[i].seq = 9
    /\ \E i \in DOMAIN out :
          out[i].type = "data" /\ out[i].D = 2 /\ out[i].seq = 0
    /\ last = TokenLine(<< <<"diff", 30>>, <<"D", 10>>, <<"N", 90>> >>)

\* C9 as stated: with spectral analysis enabled (and numpy there), the
\* selected signal of every forwarded sample is in the spectral buffer: the
\* buffer is as long as the sequence of records forwarded, and holds their
\* signal values in order.
CE9_BufferHoldsEveryForwarded ==
    (FftConfigured(args) /\ np_ok) =>
        /\ Len(fft_buf) = Len(DataRecords(out))
        /\ \A i \in DOMAIN fft_buf :
              fft_buf[i] = IF args.fft_signal = "x"
                           THEN DataRecords(out)[i].x_nm
                           ELSE DataRecords(out)[i].v_nm_s

\* C10: with spectral analysis enabled, a step emits a snapshot exactly when
\* it forwards a record, the accepted-sample counter is a multiple of the
\* trigger interval and the spectral buffer holds at least window-length
\* values; the snapshot is over the newest window-length values of the
\* buffer, follows the record, and no step emits a snapshot without a record.
C10_SnapshotGate ==
    [][ (Stepped /\ FftConfigured(args)) =>
          LET recNow  == \E i \in DOMAIN Appended : Appended[i].type = "data"
              snapNow == \E i \in DOMAIN Appended : Appended[i].type = "fft"
              n       == args.fft_len
          IN  /\ Len(Appended) <= 2
              /\ snapNow <=> /\ recNow
                             /\ emitted' % args.fft_every = 0
                             /\ Len(fft_buf') >= n
              /\ snapNow =>
                   /\ Appended[1].type = "data" /\ Appended[2].type = "fft"
                   /\ Appended[2].win =
                        SubSeq(fft_buf', Len(fft_buf') - n + 1, Len(fft_buf'))
                   /\ Len(Appended[2].win) = n
      ]_vars

\* C10 witness: window 2, interval 2, no decimation: four records and one
\* snapshot, emitted on the fourth.
W10_SnapshotOnFourth ==
    /\ args.fft_len = 2 /\ args.fft_every = 2 /\ args.decimate = 1
    /\ Len(DataRecords(out)) = 4 /\ Len(Snapshots(out)) = 1
    /\ out[Len(out)].type = "fft"

\* C11: with a window length of 0 or a trigger interval of 0 no snapshot is
\* ever written and the spectral buffer stays empty.
C11_SpectralDisabled ==
    (args.fft_len = 0 \/ args.fft_every = 0) =>
        /\ fft_buf = <<>>
        /\ \A i \in DOMAIN out : out[i].type # "fft"

\* C11 witness: window 0 with interval 1 and numpy there, four records out.
W11_DisabledByWindow ==
    /\ args.fft_len = 0 /\ args.fft_every = 1 /\ np_ok
    /\ Len(DataRecords(out)) = 4

\* C12: in "every" mode every sample with a primary count passes the mode
\* gate; in "onstep" mode a sample passes exactly when its count delta is
\* nonzero, every record has a nonzero delta, and the first sample of the
\* run (delta 0) is not forwarded.
C12_ModeGate ==
    LET passing == {i \in DOMAIN samples :
                       args.emit = "every" \/ samples[i].dD # 0}
    IN  /\ \A i \in DOMAIN samples : samples[i].pass <=> i \in passing
        /\ emitted = Cardinality(passing)
        /\ args.emit = "every" => emitted = Len(samples)
        /\ args.emit = "onstep" =>
              /\ \A i \in DOMAIN out :
                    out[i].type = "data" => out[i].deltaD # 0
              /\ samples # <<>> =>
                    /\ samples[1].dD = 0 /\ ~samples[1].keep
                    /\ Len(DataRecords(out)) <= Len(samples) - 1

\* C12 witness: on-step mode without decimation, a backward step forwarded
\* and a later sample with delta 0 held back.
W12_BackwardStepForwarded ==
    /\ args.emit = "onstep" /\ args.decimate <= 1
    /\ \E i \in DOMAIN out : out[i].type = "data" /\ out[i].deltaD < 0
    /\ \E i \in DOMAIN samples : i > 1 /\ samples[i].dD = 0 /\ ~samples[i].keep

\* A record with its compensated displacement blanked.
Uncompensated(r) ==
    IF r.type = "data" THEN [r EXCEPT !.x_nm_env = <<0, 1>>] ELSE r
UncompensatedSeq(s) == [i \in DOMAIN s |-> Uncompensated(s[i])]

\* C13: the output of a run, the compensated-displacement field set aside,
\* is the output of the same lines under the same configuration with no
\* environmental triple active: count delta, step, cumulative displacement,
\* velocity, EMA, MA and angle of every record are the same for every choice
\* of the triples, and so is the stream state that later samples build on.
C13_CompensationReadOnly ==
    /\ UncompensatedSeq(out) = UncompensatedSeq(ref.out)
    /\ StateOf = ref.st

\* C13 witness: two records whose compensated displacement differs from the
\* run without compensation, the second smoothed over both samples.
W13_CompensatedDiffers ==
    /\ Len(out) = 2 /\ Len(ref.out) = 2
    /\ out[1].x_nm_env # ref.out[1].x_nm_env
    /\ out[2].x_nm_env # ref.out[2].x_nm_env
    /\ out[2].x_nm_ema # Some(RInt(out[2].x_nm))
    /\ out[2].angle_deg # out[1].angle_deg

\* Whether a triple is active, and the factor 1 + k * (current - reference)
\* of an active one as a fraction.
Active(cur, ref0, k) == cur # None /\ ref0 # None /\ k[1] # 0
FactorOf(cur, ref0, k) ==
    IF Active(cur, ref0, k)
    THEN <<k[2] + k[1] * (cur[1] - ref0[1]), k[2]>> ELSE <<1, 1>>

\* C14: the compensated displacement of every record is its cumulative
\* displacement times the product of 1 + k * (current - reference) over the
\* active channels; with only the temperature active at (25, 20, 0.01) it is
\* 1.05 times the displacement, with no active channel it is the displacement.
C14_CompensationProduct ==
    LET ft == FactorOf(args.env_temp, args.env_temp0, args.env_ktemp)
        fp == FactorOf(args.env_press, args.env_press0, args.env_kpress)
        fh == FactorOf(args.env_hum, args.env_hum0, args.env_khum)
        tOn == Active(args.env_temp, args.env_temp0, args.env_ktemp)
        pOn == Active(args.env_press, args.env_press0, args.env_kpress)
        hOn == Active(args.env_hum, args.env_hum0, args.env_khum)
    IN  \A i \in DOMAIN out : out[i].type = "data" =>
            LET x == out[i].x_nm
                c == out[i].x_nm_env
            IN  /\ c[1] * (ft[2] * fp[2] * fh[2]) =
                       x * (ft[1] * fp[1] * fh[1]) * c[2]
                /\ (tOn /\ ~pOn /\ ~hOn /\ args.env_temp = Some(25)
                      /\ args.env_temp0 = Some(20)
                      /\ args.env_ktemp = <<1, 100>>) => 100 * c[1] = 105 * x * c[2]
                /\ (~tOn /\ ~pOn /\ ~hOn) => c = <<x, 1>>

\* C14 witness: only the temperature is active and a displacement of 10 nm
\* is reported as 10.5 nm; the pressure triple has no current value.
W14_TemperatureOnly ==
    /\ args.env_temp = Some(25) /\ args.env_temp0 = Some(20)
    /\ args.env_ktemp = <<1, 100>> /\ args.env_press = None
    /\ \E i \in DOMAIN out : out[i].x_nm = 10 /\ out[i].x_nm_env = <<21, 2>>

\* x / n cut off at -1 and 1, n # 0
Clamped(x, n) ==
    IF (n > 0 /\ x > n) \/ (n < 0 /\ x < n) THEN <<1, 1>>
    ELSE IF (n > 0 /\ x < -n) \/ (n < 0 /\ x > -n) THEN <<-1, 1>>
    ELSE RDiv(x, n)

\* C17: in angle mode with normalization length 0 every record reports the
\* angle 0; with a nonzero length the angle is asin of cumulative / length
\* cut off at -1 and 1, times the correction; in displacement mode the angle
\* of every record is null.
C17_Angle ==
    \A i \in DOMAIN out : out[i].type = "data" =>
        LET r == out[i]
        IN  /\ args.mode # "angle" => r.angle_deg = None
            /\ (args.mode = "angle" /\ args.angle_norm_nm = 0) =>
                   r.angle_deg = Some(AngleZero)
            /\ (args.mode = "angle" /\ args.angle_norm_nm # 0) =>
                   /\ r.angle_deg # None
                   /\ LET q == r.angle_deg[1].asin_of
                      IN  /\ -q[2] <= q[1] /\ q[1] <= q[2]
                          /\ r.angle_deg[1] =
                                AsinTimes(Clamped(r.x_nm, args.angle_norm_nm),
                                          args.angle_corr)

\* C17 witness: angle mode, length 4: a displacement of 6 reports asin(1), a
\* later one of 2 reports asin(1/2).
W17_ClampedThenInRange ==
    /\ args.mode = "angle" /\ args.angle_norm_nm = 4
    /\ Len(out) >= 2
    /\ out[1].x_nm = 6 /\ out[1].angle_deg = Some([asin_of |-> <<1, 1>>, corr |-> 3])
    /\ \E i \in DOMAIN out :
          out[i].x_nm = 2 /\ out[i].angle_deg = Some([asin_of |-> <<1, 2>>, corr |-> 3])

\* The value of a record that the analyzer buffers.
SignalOf(r) == IF args.fft_signal = "x" THEN r.x_nm ELSE r.v_nm_s

\* Every snapshot in the output directly follows the record of its sample.
SnapshotsFollowRecords(s) ==
    \A i \in DOMAIN s : s[i].type = "fft" =>
        /\ i > 1
        /\ s[i - 1].type = "data"
        /\ s[i].fs_hz = s[i - 1].fs_hz
        /\ s[i].win # <<>>
        /\ s[i].win[Len(s[i].win)] = SignalOf(s[i - 1])

\* C20: what one sample writes to the primary sink is nothing, its record, or
\* its record followed by the one snapshot it triggered, never a snapshot
\* first; so every snapshot in the output stream is immediately preceded by
\* the record of the sample that triggered it (same frequency, and the newest
\* value of the snapshot's window is that record's signal).
C20_RecordBeforeSnapshot ==
    [][Stepped =>
          /\ Len(Appended) <= 2
          /\ Appended # <<>> => Appended[1].type = "data"
          /\ Len(Appended) = 2 => Appended[2].type = "fft"
          /\ SnapshotsFollowRecords(out')]_vars

\* C20 witness: window 2, every sample analysed: record, record, snapshot,
\* record, snapshot.
W20_TwoSnapshots ==
    /\ Len(out) = 5
    /\ out[3].type = "fft" /\ out[5].type = "fft"
    /\ out[4].type = "data" /\ out[5].win = <<out[2].x_nm, out[4].x_nm>>
    /\ out[4].x_nm # out[2].x_nm

\* The rows the log would hold: the header unless the file existed, then one
\* row per forwarded record.
ExpectedLog ==
    (IF host.log_exists THEN <<>> ELSE <<FieldOrder>>)
        \o [i \in DOMAIN DataRecords(out) |-> Row(DataRecords(out)[i])]

\* C15: with a log target configured the pipeline runs with both sinks
\* active: the log holds a header row only if the target did not exist, then
\* one row per record forwarded to the primary sink, in the same field order,
\* and none for a dropped sample.  (Violated: with a log target the run ends
\* before the first line is read.)
CE15_BothSinksActive ==
    args.log # None =>
        /\ status = "running"
        /\ log_writer
        /\ log = ExpectedLog

\* C16: a failed write of a record to a sink does not end the run.
\* (Violated: the exception of a failed write to stdout leaves main.)
CE16_WriteFailureSurvived ==
    (\E i \in DOMAIN samples : samples[i].fault # "none") => status = "running"

\* The signals stop() asked for, in order.
StopCalls ==
    LET sc == SelectSeq(calls, LAMBDA c : c.by = "stop")
    IN  [i \in DOMAIN sc |-> sc[i].op]
StopReturned == stop_live /\ stop_pc = "idle"
ReaderDone ==
    /\ w_thread = "done"
    /\ events # <<>> /\ events[Len(events)] = "stopped:exited"

\* C18 as stated: once stop() has returned from a worker whose child was
\* running, it has sent an interrupt and then a terminate.  (Violated where
\* os.name is "nt".)
CE18_InterruptThenTerminate ==
    StopReturned => StopCalls = <<"INT", "TERM">>

\* C18, amended: stop() on a worker whose child is running interrupts and
\* then terminates it, except on Windows where it only terminates it; in
\* both cases, and when the child's output closes on its own, the reader
\* leaves its loop and emits 'stopped', once.
C18_StopThenStopped ==
    /\ [](/\ StopReturned =>
                StopCalls = IF os_nt THEN <<"TERM">> ELSE <<"INT", "TERM">>
          /\ (stop_live /\ stop_pc = "sleep") => StopCalls = <<"INT">>
          /\ ~stop_live => StopCalls = <<>>
          /\ Cardinality({i \in DOMAIN events :
                              events[i] = "stopped:exited"}) <= 1)
    /\ (stop_live \/ w_proc = "exited") ~> ReaderDone

\* C18 witness: not Windows; stop() interrupted and terminated a child that
\* had written, and the reader has emitted 'stopped'.
W18_StoppedAfterInterrupt ==
    /\ ~os_nt /\ StopReturned /\ StopCalls = <<"INT", "TERM">>
    /\ nwritten > 0 /\ ReaderDone

\* Whether a sequence of line numbers is strictly increasing.
Increasing(s) == \A i, j \in DOMAIN s : i < j => s[i] < s[j]

\* C19 as stated: complete lines are delivered at most once and in the order
\* written, no truncated line is delivered, and when the reader is through
\* at most one of the lines the child wrote was not delivered.  (Violated:
\* the lines in the child's buffer when it is terminated, and the lines in
\* the pipe when the reader sees the stop flag, are all lost.)
CE19_AtMostOneLost ==
    /\ Increasing(delivered)
    /\ \A i \in DOMAIN delivered :
          Parses(delivered[i]) /\ delivered[i] \in 1..nwritten
    /\ (w_thread = "done" /\ w_proc = "exited") =>
          nwritten - Len(delivered) <= 1

\* The cumulative displacement after each sample, the samples forwarded, and
\* the last k values of a sequence.
Xs == [i \in DOMAIN samples |-> samples[i].x]
KeptIdx == SelectSeq([i \in DOMAIN samples |-> i], LAMBDA i : samples[i].keep)
Min(a, b) == IF a <= b THEN a ELSE b
LastOf(s, k) == SubSeq(s, Len(s) - k + 1, Len(s))

\* C21: with a window W > 0 the moving-average history holds the last
\* min(n, W) cumulative displacements of the n samples so far, never more
\* than W; with W = 0 it stays empty and no record carries an MA value.
C21_MaHistoryBounded ==
    LET W == args.ma_window
        n == Len(samples)
    IN  /\ W > 0 => /\ Len(ma_buf) = Min(n, W)
                    /\ Len(ma_buf) <= W
                    /\ ma_buf = LastOf(Xs, Min(n, W))
        /\ W = 0 => /\ ma_buf = <<>>
                    /\ \A i \in DOMAIN out :
                          out[i].type = "data" => out[i].x_nm_ma = None

\* C21 witness: window 2, four samples: the two oldest values are gone.
W21_TwoEvicted ==
    /\ args.ma_window = 2 /\ Len(samples) = 4
    /\ ma_buf = <<samples[3].x, samples[4].x>>
    /\ samples[1].x # samples[3].x /\ samples[2].x # samples[4].x

\* C22: with W > 0 the MA of a record is the mean of the cumulative
\* displacements of the last min(n, W) samples up to its own, forwarded or
\* not; W = 3 over displacements 2, 4, 6, 8 gives 2, 3, 4, 6.
C22_MaIsMeanOfRecent ==
    LET W == args.ma_window
        recs == DataRecords(out)
    IN  W > 0 =>
          /\ Len(recs) = Len(KeptIdx)
          /\ \A j \in DOMAIN recs :
                LET i   == KeptIdx[j]
                    win == LastOf(SubSeq(Xs, 1, i), Min(i, W))
                IN  /\ recs[j].x_nm = Xs[i]
                    /\ recs[j].x_nm_ma # None
                    /\ recs[j].x_nm_ma[1][1] * Len(win) =
                           SumSeq(win) * recs[j].x_nm_ma[1][2]
          /\ (W = 3 /\ Xs = <<2, 4, 6, 8>> /\ Len(recs) = 4) =>
                [j \in 1..4 |-> recs[j].x_nm_ma] =
                    <<Some(<<2, 1>>), Some(<<3, 1>>), Some(<<4, 1>>), Some(<<6, 1>>)>>

\* C22 witness: window 3, displacements 2, 4, 6, 8, all forwarded; the last
\* record reports 6.
W22_WindowThreeOverFour ==
    /\ args.ma_window = 3 /\ Xs = <<2, 4, 6, 8>>
    /\ Len(DataRecords(out)) = 4
    /\ DataRecords(out)[4].x_nm_ma = Some(<<6, 1>>)

\* The EMA of a nonempty sequence of values: seeded with the first.
RECURSIVE EmaOver(_, _)
EmaOver(al, xs) ==
    IF Len(xs) = 1 THEN RInt(xs[1])
    ELSE RAdd(RMul(al, RInt(xs[Len(xs)])),
              RMul(RSub(RInt(1), al), EmaOver(al, SubSeq(xs, 1, Len(xs) - 1))))

\* C23: with alpha > 0 the accumulator is absent before the first sample, is
\* that sample's cumulative displacement after it, and then follows
\* alpha * cumulative + (1 - alpha) * ema on every sample, forwarded or not;
\* alpha = 0.5 over 10, 20, 30 gives 10, 15, 22.5.  With alpha = 0 it is
\* never seeded and no record carries an EMA value.
C23_EmaRecurrence ==
    LET al   == args.ema_alpha
        recs == DataRecords(out)
    IN  /\ al[1] > 0 =>
              /\ ema_x = IF samples = <<>> THEN None ELSE Some(EmaOver(al, Xs))
              /\ Len(recs) = Len(KeptIdx)
              /\ \A j \in DOMAIN recs :
                    recs[j].x_nm_ema = Some(EmaOver(al, SubSeq(Xs, 1, KeptIdx[j])))
              /\ (al = <<1, 2>> /\ Xs = <<10, 20, 30>> /\ Len(recs) = 3) =>
                    [j \in 1..3 |-> recs[j].x_nm_ema] =
                        <<Some(<<10, 1>>), Some(<<15, 1>>), Some(<<45, 2>>)>>
        /\ al[1] = 0 =>
              /\ ema_x = None
              /\ \A j \in DOMAIN recs : recs[j].x_nm_ema = None

\* C23 witness: alpha 0.5, a line without a count first, then displacements
\* 10, 20, 30; the third record reports 22.5.
W23_HalfOverThree ==
    /\ args.ema_alpha = <<1, 2>> /\ Xs = <<10, 20, 30>> /\ nlines = 4
    /\ Len(DataRecords(out)) = 3
    /\ DataRecords(out)[3].x_nm_ema = Some(<<45, 2>>)

\* C24: a line with a primary count sets the previous count to its own,
\* moves the cumulative displacement by its step and compounds the
\* multiplier once, feeds the EMA and the MA history, whether the sample is
\* forwarded or dropped; the delta and the step of a forwarded record are
\* those against the line with a count just before it.
C24_DroppedSamplesAdvance ==
    [][Len(samples') = Len(samples) + 1 =>
          LET smp == samples'[Len(samples')]
              dD  == IF prevD = None THEN 0 ELSE smp.D - prevD[1]
              x1  == (x_nm + step_nm_per_count * dD) * args.straight_mult
          IN  /\ smp.dD = dD
              /\ prevD' = Some(smp.D)
              /\ x_nm' = x1
              /\ args.ema_alpha[1] > 0 =>
                    ema_x' = IF ema_x = None THEN Some(RInt(x1))
                             ELSE Some(RAdd(RMul(args.ema_alpha, RInt(x1)),
                                            RMul(RSub(RInt(1), args.ema_alpha),
                                                 ema_x[1])))
              /\ args.ma_window > 0 =>
                    /\ ma_buf' # <<>>
                    /\ ma_buf'[Len(ma_buf')] = x1
              /\ smp.keep =>
                    /\ Appended # <<>>
                    /\ Appended[1].D = smp.D
                    /\ Appended[1].deltaD = dD
                    /\ Appended[1].step_nm = step_nm_per_count * dD
                    /\ Appended[1].x_nm = x1]_vars

\* C24 witness: both filters on, a decimated run whose second record follows
\* a dropped sample; its delta is against that dropped third sample, not
\* against the record before it.
W24_DeltaAgainstDropped ==
    /\ args.decimate = 2 /\ args.ema_alpha[1] > 0 /\ args.ma_window > 0
    /\ Len(samples) = 4
    /\ ~samples[3].keep /\ samples[4].keep /\ samples[2].keep
    /\ samples[4].dD = samples[4].D - samples[3].D
    /\ samples[4].dD # samples[4].D - samples[2].D
    /\ DataRecords(out)[2].deltaD = samples[4].dD

\* C25: every record and every snapshot written carries a sampling frequency
\* above zero, whatever the override and the header lines read.
C25_PositiveFrequency ==
    \A i \in DOMAIN out :
        out[i].type \in {"data", "fft"} => out[i].fs_hz > 0

\* C25 witness: a negative override and a header of 0: the first record and
\* its snapshot carry the default, those after a later header carry its value.
W25_DefaultThenHeader ==
    /\ args.fs = -5 /\ Len(out) = 4 /\ 0 \in {hdrs[i] : i \in DOMAIN hdrs}
    /\ out[1].type = "data" /\ out[1].fs_hz = DefaultFs
    /\ out[2].type = "fft" /\ out[2].fs_hz = DefaultFs
    /\ out[3].type = "data" /\ out[3].fs_hz = 2000
    /\ out[4].type = "fft" /\ out[4].fs_hz = 2000

\* The notifications of one run, in one of the two allowed shapes: error then
\* stopped after a failed spawn; or started, any number of line_received,
\* then at most one stopped, which nothing follows.
WellOrdered(ev) ==
    \/ ev = <<>>
    \/ ev = <<"error", "stopped:spawn-failed">>
    \/ /\ ev[1] = "started"
       /\ \A i \in 2..Len(ev) :
             \/ ev[i] = "line_received"
             \/ ev[i] = "stopped:exited" /\ i = Len(ev)

\* C27: the notifications of a run are error, stopped after a failed spawn,
\* or else started, then line_received any number of times, then stopped;
\* a finished run has emitted stopped exactly once; nothing is emitted after
\* stopped, and a turn of the loop that finds the stop flag set emits nothing
\* and leaves the loop for good.
C27_NotificationsOrdered ==
    [][/\ WellOrdered(events')
       /\ w_thread' = "done" =>
             Cardinality({i \in DOMAIN events' :
                 events'[i] \in {"stopped:exited", "stopped:spawn-failed"}}) = 1
       /\ w_thread = "done" => events' = events
       /\ (w_thread = "loop" /\ w_stop /\ Len(pipe') < Len(pipe)) =>
             /\ events' = events
             /\ w_thread' = "finally"
       /\ w_thread = "finally" =>
             (events' = events \/ events' = Append(events, "stopped:exited"))]_vars

\* C27 witness: a run that delivered a line, saw the stop flag with a line
\* still unread, and emitted stopped.
W27_LineThenStopped ==
    /\ events = <<"started", "line_received", "stopped:exited">>
    /\ w_stop /\ nwritten >= 2 /\ w_thread = "done"

\* Whether the reader of worker w has emitted 'stopped', and whether its
\* child is alive.
HasStopped(w) == workers[w].thread = "done"

Alive(w) == workers[w].proc = "running"

\* C26 as stated: at most one backend launched by the window is alive at a
\* time; Start is enabled only when the reader of every backend launched so
\* far has emitted 'stopped', and so at most one launched backend has a
\* reader that has not.  (Violated: Start stays enabled after a click until
\* 'started' is handled, Stop enables it before 'stopped' is emitted, and
\* the 'stopped' of an earlier backend enables it while a later one runs.)
CE26_OneBackendAtATime ==
    /\ Cardinality({w \in DOMAIN workers : Alive(w)}) <= 1
    /\ start_btn => \A w \in DOMAIN workers : HasStopped(w)
    /\ Cardinality({w \in DOMAIN workers : ~HasStopped(w)}) <= 1

\* The steps that end a run or the window: a Stop click, a 'stopped'
\* notification handled, the window closed.
StopClicked == stop_btn /\ ~stop_btn' /\ evq' = evq

StoppedHandled ==
    /\ evq # <<>> /\ Head(evq).kind = "stopped"
    /\ evq' = Tail(evq)

WindowClosing == ~win_closed /\ win_closed'

\* The capture's fields agree, at most the capture file is open, and the
\* file holds its header and rows of data records.
CaptureConsistent ==
    /\ capture_active => capture_file = "open" /\ capture_writer
    /\ open_files = (IF capture_file = "open" THEN 1 ELSE 0)
    /\ \A i \in DOMAIN capture_disk :
          capture_disk[i].kind = (IF i = 1 THEN "header" ELSE "data")

\* What a step may do to the capture: the ending steps leave it off and
\* closed; the file grows by its header or by the data record handled.
CaptureStep ==
    /\ (StopClicked \/ StoppedHandled \/ WindowClosing) =>
          (~capture_active' /\ capture_file' = "none" /\ open_files' = 0)
    /\ capture_disk' # capture_disk =>
          \/ /\ capture_disk = <<>> /\ capture_disk' = <<HeaderRow>>
             /\ capture_active'
          \/ /\ evq # <<>> /\ Head(evq).kind = "data" /\ evq' = Tail(evq)
             /\ capture_active /\ capture_active'
             /\ capture_disk' = Append(capture_disk, Head(evq))

\* C28: the capture is active only while a capture file is open with its
\* writer, and the window holds no other open file; a Stop click, a handled
\* 'stopped' notification and the closing of the window each leave the
\* capture inactive and the file closed; the file grows only by its header
\* when it is opened new, and by one row when a data record is handled
\* while the capture is active, never by a spectral snapshot.
C28_CaptureConsistent == []CaptureConsistent /\ [][CaptureStep]_vars

\* C28 happens: a capture took the row of the one data record it saw, two
\* lines were read, and the Stop click ended it with the file closed.
W28_RowThenStopClosed ==
    /\ capture_disk = <<HeaderRow, [w |-> 1, kind |-> "data"]>>
    /\ nread = 2 /\ evq = <<>>
    /\ workers[1].stop /\ ~stop_btn
    /\ ~capture_active /\ capture_file = "none" /\ ~win_closed

====
